---- MODULE Spec2Model ----
(***************************************************************************)
(* Model of the AutoRia scraper (src/autoria_scraper): the crawl engine of *)
(* scraper.py (run_scraper, initialize/cleanup, the listing-page loop, the *)
(* semaphore-bounded detail workers) and the record store of database.py   *)
(* (save_car, save_cars_batch).                                            *)
(*                                                                         *)
(* The program runs on one asyncio event loop, so a coroutine runs without *)
(* interruption from one await that really suspends to the next.  Every    *)
(* action below is one such uninterrupted stretch of code.  The Selenium   *)
(* calls of _extract_car_data are synchronous: a page-load attempt and its *)
(* field reads never suspend; an attempt suspends only in the backoff      *)
(* sleep after a failure, and a worker suspends in db.save_car.            *)
(***************************************************************************)
EXTENDS Integers, Sequences, FiniteSets, TLC

\* ------------------------------------------------------------------ bounds
MaxBatch == 2        \* most item links on one listing page
MaxPages == 2        \* most listing pages of the site visited in one run
MaxRuns == 2         \* invocations of run_scraper in one process
MaxCalls == 3        \* calls a store client makes in StoreSpec
MaxText == 3         \* most characters of a text handed to a field parser in ParseSpec
MaxPhones == 2       \* most elements of class "phone" on a detail page

ItemUrls == {"a", "b"}
PageUrls == {"p1", "p2"}
Titles == {"t1", "t2"}   \* titles a store client may submit
PageTitles == {"t1"}     \* titles the detail pages show while a crawl runs
RetryChoices == {0, 1, 2}     \* values of MAX_RETRIES the runs are configured with
ConcurrencyChoices == {1, 2}  \* values of CONCURRENCY the runs are configured with
None == "None"
start_url == "p1"

VARIABLES
  max_retries,      \* self.max_retries
  concurrency,      \* self.concurrency
  run,              \* number of run_scraper invocations started so far
  pc,               \* position of the run: idle, fetching, batch, done, finished, raised
  session,          \* self.session: id of the aiohttp session, 0 for None
  selenium_driver,  \* self.selenium_driver: id of the Chrome driver, 0 for None
  openSessions,     \* ids of the aiohttp sessions created and not closed
  liveDrivers,      \* ids of the Chrome drivers created and not quit
  pool,             \* db.pool is not None
  processed_urls,   \* self.processed_urls
  current_page_url, \* process_listing_pages: current_page_url
  page_num,         \* process_listing_pages: page_num
  attempt,          \* _extract_car_urls_and_next_page: attempt
  car_urls,         \* process_listing_pages: car_urls
  next_page_url,    \* process_listing_pages: next_page_url
  tasks,            \* the coroutines handed to asyncio.gather, with their results
  success_count,    \* process_listing_pages: success_count
  error_count,      \* process_listing_pages: error_count
  semaphore,        \* asyncio.Semaphore._value of the page's semaphore
  cars,             \* rows of table cars, in insertion order
  started,          \* item URLs whose detail page a worker began to load in this run
  storeLog,         \* StoreSpec: the save_car calls a store client made, with their results
  lastBatch,        \* StoreSpec: the save_cars_batch call just made, with the rows before it
  sleeps,           \* _extract_car_urls_and_next_page: the factors k of the sleeps
                    \* request_delay * k made so far by the current call
  status,           \* _extract_car_urls_and_next_page: response.status of the last GET
  ex,               \* ExtractSpec: one call of _extract_car_data
  text,             \* ParseSpec: the text handed to a field parser
  parsed,           \* ParseSpec: the parser applied and the value it returned
  render,           \* RenderSpec: the Chrome driver and the workers that share it
  runs              \* OverlapSpec: the run_scraper tasks alive on the shared scraper

vars == <<max_retries, concurrency, run, pc, session, selenium_driver, openSessions,
          liveDrivers, pool, processed_urls, current_page_url, page_num, attempt,
          car_urls, next_page_url, tasks, success_count, error_count, semaphore,
          cars, started, storeLog, lastBatch, sleeps, status, ex, text, parsed,
          render, runs>>

configVars == <<max_retries, concurrency>>
resourceVars == <<session, selenium_driver, openSessions, liveDrivers, pool>>
pageVars == <<current_page_url, page_num, attempt, car_urls, next_page_url>>
countVars == <<success_count, error_count>>
storeVars == <<storeLog, lastBatch>>
fetchVars == <<sleeps, status>>
unitVars == <<ex, text, parsed, render, runs>>

\* ------------------------------------------------------------ small helpers
SeqsUpTo(S, n) == UNION {[1..k -> S] : k \in 0..n}

Range(s) == {s[i] : i \in DOMAIN s}

\* The sub-sequence of s whose elements satisfy Keep, in order.
RECURSIVE SelectSeqIn(_, _)
SelectSeqIn(s, keep) ==
  IF s = <<>> THEN <<>>
  ELSE IF Head(s) \in keep THEN <<Head(s)>> \o SelectSeqIn(Tail(s), keep)
       ELSE SelectSeqIn(Tail(s), keep)

\* ----------------------------------------------------------- record store
\* The UNIQUE constraint on cars.url, as ON CONFLICT (url) sees it.
ConflictNoConstraint(rows, url) == FALSE

Conflict(rows, url) == \E i \in DOMAIN rows : rows[i].url = url

\* INSERT ... ON CONFLICT (url) DO NOTHING RETURNING id: the rows after the
\* statement and whether an id came back.
InsertOrIgnore(rows, car_data) ==
  IF Conflict(rows, car_data.url)
  THEN [rows |-> rows, inserted |-> FALSE]
  ELSE [rows |-> Append(rows, car_data), inserted |-> TRUE]

\* save_car when the failed statement has written its row all the same.
save_carPartialWrite(rows, car_data, dbError) ==
  IF dbError
  THEN [rows |-> Append(rows, car_data), ret |-> FALSE]
  ELSE [rows |-> InsertOrIgnore(rows, car_data).rows,
        ret |-> InsertOrIgnore(rows, car_data).inserted]

\* Database.save_car: an exception inside the try is logged and gives False.
save_car(rows, car_data, dbError) ==
  IF dbError
  THEN [rows |-> rows, ret |-> FALSE]
  ELSE LET r == InsertOrIgnore(rows, car_data)
       IN  [rows |-> r.rows, ret |-> r.inserted]

\* The loop of save_cars_batch inside conn.transaction(): the rows and the
\* count after the records before index failAt (0: no record fails).
RECURSIVE BatchLoop(_, _, _, _, _)
BatchLoop(rows, cars_data, i, failAt, saved_count) ==
  IF i > Len(cars_data) THEN [rows |-> rows, count |-> saved_count, failed |-> FALSE]
  ELSE IF i = failAt THEN [rows |-> rows, count |-> saved_count, failed |-> TRUE]
  ELSE LET r == InsertOrIgnore(rows, cars_data[i])
       IN  BatchLoop(r.rows, cars_data, i + 1, failAt,
                     IF r.inserted THEN saved_count + 1 ELSE saved_count)

\* What is left of a failed batch when every statement commits on its own.
RolledBackAutocommit(before, after) == after

\* conn.transaction(): leaving the block by an exception rolls back to the
\* rows as they were when it was entered.
RolledBack(before, after) == before

\* Database.save_cars_batch.
save_cars_batch(rows, cars_data, failAt) ==
  IF cars_data = <<>> THEN [rows |-> rows, ret |-> 0]
  ELSE LET r == BatchLoop(rows, cars_data, 1, failAt, 0)
       IN  IF r.failed
           THEN [rows |-> RolledBack(rows, r.rows), ret |-> 0]
           ELSE [rows |-> r.rows, ret |-> r.count]


\* No save_cars_batch call has just been made.
NoBatch == [called |-> FALSE, before |-> <<>>, cars_data |-> <<>>, failAt |-> 0, ret |-> 0]

\* ------------------------------------------------------- session resources
\* AutoRiaScraper.cleanup: close the session self.session refers to unless it
\* is None or closed, quit the driver self.selenium_driver refers to.
SessionsAfterNoCleanup == openSessions

SessionsAfterCleanup == openSessions \ {session}

DriversAfterCleanup == liveDrivers \ {selenium_driver}

\* ---------------------------------------------------------- listing pages
NoNextLink == "no-link"    \* the page has no a.js-next element
EmptyHref == "no-href"     \* the a.js-next element has no href

\* The next-page URL when the href of the element is not tested: urljoin of
\* the page URL and a missing href is the page URL.
ParseNextNoHrefTest(page_url, next) ==
  IF next = NoNextLink THEN None
  ELSE IF next = EmptyHref THEN page_url
  ELSE next

\* next_page_url of _extract_car_urls_and_next_page for the page at
\* page_url whose a.js-next element is next.  An href is written as the
\* absolute URL urljoin(page_url, href) resolves it to.
ParseNext(page_url, next) ==
  IF next \in {NoNextLink, EmptyHref} THEN None ELSE next

\* A loop that goes on after an empty page.
PageIsEmptyNever(urls) == FALSE

\* "if not car_urls" of process_listing_pages.
PageIsEmpty(urls) == urls = <<>>

\* response.status when the GET raised instead of answering (the except
\* branch of the paginator), and before any GET of the run.
NoResponse == 0

\* What a GET of a listing page may give: a status (204 is a 2xx status
\* other than 200) or no response.
Statuses == {200, 204, 500, NoResponse}

\* The attempt of the paginator parses the answer and returns: the GET did
\* not raise and "response.status != 200" is false.
FetchSucceeds(s) == s # NoResponse /\ ~(s # 200)

\* The fields of a record other than url, and the values they take when the
\* element is missing or its read fails (the except branches of
\* _extract_car_data).
Fields == {"title", "price_usd", "odometer", "username", "phone_number",
           "image_url", "images_count", "car_number", "car_vin"}

Defaults == [url |-> None, title |-> "", price_usd |-> 0, odometer |-> 0,
             username |-> "", phone_number |-> 0, image_url |-> "",
             images_count |-> 0, car_number |-> "", car_vin |-> ""]

\* No call of _extract_car_data has been made.  pc: idle, loop (about to
\* load the page, attempt being the loop index), sleep (in the backoff
\* sleep), record (a record was returned, ret) or failed (None was
\* returned).  loads and fails count the page loads made and the attempts
\* that raised, naps lists the factors k of the sleeps request_delay * k,
\* loaded, present, reveal and phones describe the page of the pass just
\* made.
NoCall == [pc |-> "idle", url |-> None, attempt |-> 0, loads |-> 0, fails |-> 0,
           naps |-> <<>>, loaded |-> FALSE, present |-> {}, reveal |-> "absent",
           phones |-> <<>>, ret |-> Defaults]

\* No field parser has been applied.
NotParsed == [fn |-> None, value |-> 0]

\* The listing pages the site may answer with at the given page index.
Responses(n) ==
  [links : SeqsUpTo(ItemUrls, MaxBatch),
   next : IF n < MaxPages THEN PageUrls \cup {NoNextLink, EmptyHref}
          ELSE {NoNextLink, EmptyHref}]

\* ------------------------------------------------------------------ tasks
\* A task is waiting (for the semaphore), in backoff (asleep between two
\* attempts, attempt being the index of the next one), saving (in
\* db.save_car, with the record's title) or done, with the outcome of its
\* unit of work: skipped (URL already in processed_urls), failed (no
\* record extracted), saved or notsaved (save_car gave True or False),
\* raised (an exception left the unit of work).
NewTask(u) ==
  [url |-> u, st |-> "waiting", attempt |-> 0, title |-> None, outcome |-> "pending"]

Finished(t, outcome) ==
  [url |-> t.url, st |-> "done", attempt |-> 0, title |-> None, outcome |-> outcome]

\* What gather collects for a finished task: the returned bool or the exception.
Result(t) ==
  IF t.outcome = "saved" THEN "True"
  ELSE IF t.outcome = "raised" THEN "Exception"
  ELSE "False"

RECURSIVE NewTasks(_)
NewTasks(urls) ==
  IF urls = <<>> THEN <<>> ELSE <<NewTask(Head(urls))>> \o NewTasks(Tail(urls))

\* The tasks list of process_listing_pages: one coroutine per URL of the page
\* that is not in processed_urls.
TasksFor(urls, processed) == NewTasks(SelectSeqIn(urls, ItemUrls \ processed))

InFlight == {i \in DOMAIN tasks : tasks[i].st \in {"backoff", "saving"}}

\* A semaphore that lets every caller in.
SemLockedNever(value) == FALSE

\* asyncio.Semaphore.locked of the semaphore entered by "async with semaphore".
SemLocked(value) == value <= 0

\* gather that returns at the first finished task.
GatherFirstDone(ts) == \E i \in DOMAIN ts : ts[i].st = "done"

\* gather without return_exceptions: the first exception of a task leaves
\* gather while the other tasks are still running.
GatherPropagates(ts) ==
  \/ \A i \in DOMAIN ts : ts[i].st = "done"
  \/ \E i \in DOMAIN ts : ts[i].outcome = "raised"

\* await asyncio.gather(*tasks, return_exceptions=True) returns: every task
\* has returned or raised.
GatherDone(ts) == \A i \in DOMAIN ts : ts[i].st = "done"

\* One pass of the loop of _extract_car_data, t.attempt being the loop
\* index: the page loads (ok) and the record is returned to the worker,
\* which goes on to db.save_car; or the attempt fails and the loop sleeps
\* before the next pass, or returns None after the last one.
AfterAttempt(t, ok, title) ==
  IF ok THEN [t EXCEPT !.st = "saving", !.title = title, !.attempt = 0]
  ELSE IF t.attempt < max_retries - 1
       THEN [t EXCEPT !.st = "backoff", !.attempt = @ + 1]
       ELSE Finished(t, "failed")

\* No worker has been handed the Chrome driver; about:blank is loaded.
NoRender == [running |-> 0, page |-> None, w |-> <<>>]

\* ---------------------------------------------------------------- actions
Init ==
  /\ max_retries \in RetryChoices
  /\ concurrency \in ConcurrencyChoices
  /\ run = 0
  /\ pc = "idle"
  /\ session = 0
  /\ selenium_driver = 0
  /\ openSessions = {}
  /\ liveDrivers = {}
  /\ pool = FALSE
  /\ processed_urls = {}
  /\ current_page_url = start_url
  /\ page_num = 1
  /\ attempt = 0
  /\ car_urls = <<>>
  /\ next_page_url = None
  /\ tasks = <<>>
  /\ success_count = 0
  /\ error_count = 0
  /\ semaphore = 0
  /\ cars = <<>>
  /\ started = {}
  /\ storeLog = <<>>
  /\ lastBatch = NoBatch
  /\ sleeps = <<>>
  /\ status = NoResponse
  /\ render = NoRender
  /\ runs = <<>>
  /\ ex = NoCall
  /\ text = <<>>
  /\ parsed = NotParsed

\* The locals of process_listing_pages before the loop is entered and after
\* the function has returned.
FreshLocals ==
  /\ current_page_url' = start_url
  /\ page_num' = 1
  /\ attempt' = 0
  /\ car_urls' = <<>>
  /\ next_page_url' = None
  /\ tasks' = <<>>
  /\ success_count' = 0
  /\ error_count' = 0
  /\ semaphore' = 0
  /\ sleeps' = <<>>
  /\ status' = NoResponse

\* The counts kept about a run start at zero with the run.
FreshCounts == started' = {}

\* run_scraper -> __aenter__ -> initialize succeeds, scrape enters
\* process_listing_pages.  processed_urls is the set of the shared instance.
RunStartOk ==
  /\ pc \in {"idle", "finished", "raised"}
  /\ run < MaxRuns
  /\ run' = run + 1
  /\ session' = run + 1
  /\ openSessions' = openSessions \cup {run + 1}
  /\ selenium_driver' = run + 1
  /\ liveDrivers' = liveDrivers \cup {run + 1}
  /\ pool' = TRUE
  /\ pc' = "fetching"
  /\ FreshLocals
  /\ FreshCounts
  /\ UNCHANGED <<configVars, processed_urls, cars, storeVars, unitVars>>

\* A failed initialize after which scrape is entered all the same.
RunStartFailGoesOn ==
  /\ pc \in {"idle", "finished", "raised"}
  /\ run < MaxRuns
  /\ \E failing \in {"session", "driver", "db"} :
       /\ failing = "db" => ~pool
       /\ session' = IF failing = "session" THEN session ELSE run + 1
       /\ openSessions' = IF failing = "session" THEN openSessions
                          ELSE openSessions \cup {run + 1}
       /\ selenium_driver' = IF failing = "db" THEN run + 1 ELSE selenium_driver
       /\ liveDrivers' = IF failing = "db" THEN liveDrivers \cup {run + 1}
                         ELSE liveDrivers
  /\ run' = run + 1
  /\ pc' = "fetching"
  /\ FreshLocals
  /\ FreshCounts
  /\ UNCHANGED <<configVars, pool, processed_urls, cars, storeVars, unitVars>>

\* initialize raises at the step `failing`: the ClientSession, the Chrome
\* driver or db.connect (which can fail only while db.pool is None).  The
\* exception leaves __aenter__, so neither scrape nor __aexit__ runs.
RunStartFail ==
  /\ pc \in {"idle", "finished", "raised"}
  /\ run < MaxRuns
  /\ \E failing \in {"session", "driver", "db"} :
       /\ failing = "db" => ~pool
       /\ session' = IF failing = "session" THEN session ELSE run + 1
       /\ openSessions' = IF failing = "session" THEN openSessions
                          ELSE openSessions \cup {run + 1}
       /\ selenium_driver' = IF failing = "db" THEN run + 1 ELSE selenium_driver
       /\ liveDrivers' = IF failing = "db" THEN liveDrivers \cup {run + 1}
                         ELSE liveDrivers
  /\ run' = run + 1
  /\ pc' = "raised"
  /\ FreshLocals
  /\ FreshCounts
  /\ UNCHANGED <<configVars, pool, processed_urls, cars, storeVars, unitVars>>

\* Lines 122-131 of process_listing_pages, next being next_page_url: leave
\* the loop when there is no next page, else move to it (after the
\* inter-page sleep).
AfterBatch(next) ==
  IF next = None
  THEN /\ pc' = "done"
       /\ UNCHANGED <<current_page_url, page_num, attempt, sleeps>>
  ELSE /\ pc' = "fetching"
       /\ current_page_url' = next
       /\ page_num' = page_num + 1
       /\ attempt' = 0
       /\ sleeps' = <<>>

\* A GET of the listing page answers 200: the links are parsed, the loop
\* stops on an empty list, else the tasks of the page are created.
FetchOk ==
  /\ pc = "fetching"
  /\ attempt < max_retries
  /\ \E r \in Responses(page_num) :
       /\ car_urls' = r.links
       /\ next_page_url' = ParseNext(current_page_url, r.next)
       /\ IF PageIsEmpty(r.links)
          THEN /\ pc' = "done"
               /\ UNCHANGED <<tasks, semaphore, current_page_url, page_num, attempt, sleeps>>
          ELSE /\ tasks' = TasksFor(r.links, processed_urls)
               /\ semaphore' = concurrency
               /\ IF TasksFor(r.links, processed_urls) = <<>>
                  THEN AfterBatch(ParseNext(current_page_url, r.next))
                  ELSE /\ pc' = "batch"
                       /\ UNCHANGED <<current_page_url, page_num, attempt, sleeps>>
  /\ status' \in {s \in Statuses : FetchSucceeds(s)}
  /\ success_count' = 0
  /\ error_count' = 0
  /\ UNCHANGED <<configVars, run, resourceVars, processed_urls, cars, started, storeVars,
                 unitVars>>

\* A GET of the listing page answers another status or raises: sleep
\* request_delay * (attempt + 1), then the next pass of the loop.
FetchFail ==
  /\ pc = "fetching"
  /\ attempt < max_retries
  /\ status' \in {s \in Statuses : ~FetchSucceeds(s)}
  /\ sleeps' = Append(sleeps, attempt + 1)
  /\ attempt' = attempt + 1
  /\ success_count' = 0
  /\ error_count' = 0
  /\ UNCHANGED <<configVars, run, pc, resourceVars, processed_urls, current_page_url,
                 page_num, car_urls, next_page_url, tasks, semaphore, cars,
                 started, storeVars, unitVars>>

\* The retry loop is exhausted: return [], None, and the page loop breaks.
FetchGiveUp ==
  /\ pc = "fetching"
  /\ attempt >= max_retries
  /\ car_urls' = <<>>
  /\ next_page_url' = None
  /\ pc' = "done"
  /\ success_count' = 0
  /\ error_count' = 0
  /\ UNCHANGED <<configVars, run, resourceVars, processed_urls, current_page_url,
                 page_num, attempt, tasks, semaphore, cars, started, storeVars,
                 fetchVars, unitVars>>

\* A worker that marks the URL whatever _extract_car_data returned.
MarkProcessedAlways(processed, car_url, ok) == processed \cup {car_url}

\* "if car_data: self.processed_urls.add(car_url)", ok being the truth of
\* car_data; db.save_car is called next with nothing awaited in between.
MarkProcessed(processed, car_url, ok) ==
  IF ok THEN processed \cup {car_url} ELSE processed

\* Task i enters the semaphore (tasks enter in the order gather created
\* them), checks processed_urls and runs _extract_car_data up to its first
\* suspension.
WorkerStart(i) ==
  /\ pc = "batch"
  /\ tasks[i].st = "waiting"
  /\ \A j \in 1..(i - 1) : tasks[j].st # "waiting"
  /\ ~SemLocked(semaphore)
  /\ LET t == tasks[i] IN
       IF t.url \in processed_urls \/ max_retries = 0
       THEN /\ tasks' = [tasks EXCEPT ![i] =
                           Finished(t, IF t.url \in processed_urls THEN "skipped"
                                       ELSE "failed")]
            /\ UNCHANGED <<processed_urls, semaphore, started>>
       ELSE \E ok \in BOOLEAN, title \in PageTitles :
              LET t2 == AfterAttempt(t, ok, title) IN
                /\ tasks' = [tasks EXCEPT ![i] = t2]
                /\ processed_urls' = MarkProcessed(processed_urls, t.url, ok)
                /\ semaphore' = IF t2.st = "done" THEN semaphore ELSE semaphore - 1
                /\ started' = started \cup {t.url}
  /\ UNCHANGED <<configVars, run, pc, resourceVars, pageVars, countVars, cars,
                 storeVars, fetchVars, unitVars>>

\* The backoff sleep of task i ends and the next attempt runs.
WorkerRetry(i) ==
  /\ pc = "batch"
  /\ tasks[i].st = "backoff"
  /\ \E ok \in BOOLEAN, title \in PageTitles :
       LET t2 == AfterAttempt(tasks[i], ok, title) IN
         /\ tasks' = [tasks EXCEPT ![i] = t2]
         /\ processed_urls' = MarkProcessed(processed_urls, tasks[i].url, ok)
         /\ semaphore' = IF t2.st = "done" THEN semaphore + 1 ELSE semaphore
  /\ UNCHANGED <<configVars, run, pc, resourceVars, pageVars, countVars, cars,
                 started, storeVars, fetchVars, unitVars>>

\* db.save_car of task i completes: the row is inserted or ignored, or a
\* persistence error is absorbed as False, or an exception escapes the unit
\* of work (logged and re-raised at lines 186-188).  The semaphore is left.
WorkerSave(i) ==
  /\ pc = "batch"
  /\ tasks[i].st = "saving"
  /\ \E outcome \in {"ok", "dberror", "raise"} :
       IF outcome = "raise"
       THEN /\ tasks' = [tasks EXCEPT ![i] = Finished(@, "raised")]
            /\ cars' = cars
       ELSE LET r == save_car(cars, [url |-> tasks[i].url, title |-> tasks[i].title],
                              outcome = "dberror")
            IN  /\ cars' = r.rows
                /\ tasks' = [tasks EXCEPT ![i] =
                               Finished(@, IF r.ret THEN "saved" ELSE "notsaved")]
  /\ semaphore' = semaphore + 1
  /\ UNCHANGED <<configVars, run, pc, resourceVars, processed_urls, pageVars,
                 countVars, started, storeVars, fetchVars, unitVars>>

\* gather returns the results of the page, which are counted (lines
\* 114-115) and dropped; the loop advances or ends.  The counts are logged
\* and not read again: the next call of the paginator finds them at zero.
BatchDone ==
  /\ pc = "batch"
  /\ GatherDone(tasks)
  /\ success_count' = Cardinality({i \in DOMAIN tasks : Result(tasks[i]) = "True"})
  /\ error_count' = Cardinality({i \in DOMAIN tasks : Result(tasks[i]) = "Exception"})
  /\ tasks' = <<>>
  /\ AfterBatch(next_page_url)
  /\ UNCHANGED <<configVars, run, resourceVars, processed_urls, car_urls,
                 next_page_url, semaphore, cars, started, storeVars, status, unitVars>>

\* process_listing_pages has returned: cleanup in the finally of scrape, then
\* cleanup again in __aexit__; run_scraper returns.
RunEnd ==
  /\ pc = "done"
  /\ openSessions' = SessionsAfterCleanup
  /\ liveDrivers' = DriversAfterCleanup
  /\ pc' = "finished"
  /\ FreshLocals
  /\ UNCHANGED <<configVars, run, session, selenium_driver, pool, processed_urls,
                 cars, started, storeVars, unitVars>>

Next ==
  \/ RunStartOk
  \/ RunStartFail
  \/ FetchOk
  \/ FetchFail
  \/ FetchGiveUp
  \/ \E i \in 1..MaxBatch : i \in DOMAIN tasks /\ WorkerStart(i)
  \/ \E i \in 1..MaxBatch : i \in DOMAIN tasks /\ WorkerRetry(i)
  \/ \E i \in 1..MaxBatch : i \in DOMAIN tasks /\ WorkerSave(i)
  \/ BatchDone
  \/ RunEnd

Spec == Init /\ [][Next]_vars

\* The crawl on a running event loop: a coroutine that can take a step
\* takes one.  Every await of the crawl ends: the session has a total
\* timeout (request_timeout), WebDriverWait gives up after 10 s, the sleeps
\* are finite; the site is taken to have at most MaxPages listing pages.
LiveSpec == Spec /\ WF_vars(Next)

\* ------------------------------------------------------------ stop signal
\* main installs shutdown as the handler of SIGTERM and SIGINT.  The handler
\* runs on the event loop, between two uninterrupted stretches of the
\* coroutines.  It calls cancel() on every task: each task finds
\* CancelledError raised at the await it is suspended in.  CancelledError
\* is a BaseException (Python 3.8 and later), so no "except Exception" of
\* the scraper or the store catches it.  One signal is modelled; the
\* process ends after it.

\* A task that goes on after cancel() when it is asleep between two attempts.
CancelSwallowedInBackoff(t) ==
  IF t.st \in {"done", "backoff"} THEN t ELSE Finished(t, "cancelled")

\* cancel() on the task of a worker: a finished task keeps its result, any
\* other ends cancelled at its await (semaphore, backoff sleep, db.save_car).
Cancel(t) == IF t.st = "done" THEN t ELSE Finished(t, "cancelled")

\* The rows after the INSERTs in flight at the signal: the statement of a
\* cancelled save_car has been sent; whether it completes on the server is
\* not decided by the program.  landed: the tasks whose statement completes.
RECURSIVE LandRows(_, _, _, _)
LandRows(rows, ts, landed, i) ==
  IF i > Len(ts) THEN rows
  ELSE LandRows(IF i \in landed
                THEN InsertOrIgnore(rows, [url |-> ts[i].url, title |-> ts[i].title]).rows
                ELSE rows,
                ts, landed, i + 1)

\* The signal is handled while a run is between initialize and the end of
\* its cleanup: the workers and the orchestrator are cancelled.
Shutdown ==
  /\ pc \in {"fetching", "batch", "done"}
  /\ tasks' = [i \in DOMAIN tasks |-> Cancel(tasks[i])]
  /\ \E landed \in SUBSET {i \in DOMAIN tasks : tasks[i].st = "saving"} :
       cars' = LandRows(cars, tasks, landed, 1)
  /\ semaphore' = semaphore + Cardinality(InFlight)
  /\ pc' = "cancelling"
  /\ UNCHANGED <<configVars, run, resourceVars, processed_urls, pageVars, countVars,
                 started, storeVars, fetchVars, unitVars>>

\* CancelledError leaves process_listing_pages: the finally of scrape runs
\* cleanup, __aexit__ runs it again, and run_scraper ends cancelled.
CancelledEnd ==
  /\ pc = "cancelling"
  /\ openSessions' = SessionsAfterCleanup
  /\ liveDrivers' = DriversAfterCleanup
  /\ pc' = "stopped"
  /\ UNCHANGED <<configVars, run, session, selenium_driver, pool, processed_urls,
                 pageVars, tasks, countVars, semaphore, cars, started, storeVars,
                 fetchVars, unitVars>>

SignalNext ==
  \/ Next
  \/ Shutdown
  \/ CancelledEnd

\* The crawl under main.  shutdown awaits the cancelled tasks before it
\* stops the loop (gather at line 102), and run_until_complete returns only
\* when the task of run_scheduler, which awaits run_scraper at line 85, is
\* done: the loop keeps running the cancelled run until its finally blocks
\* have run.  For a run the schedule started as a task of its own (line
\* 59) this fairness is an assumption: run_until_complete may return
\* before that task has ended, and the task is then run on by the loop
\* only while main's finally awaits db.disconnect (line 130).
SignalSpec == Init /\ [][SignalNext]_vars /\ WF_vars(CancelledEnd)

\* ------------------------------------------------- a client of the store
\* The records and batches a client of the store submits.
Records == [url : ItemUrls, title : Titles]

BatchLens == {0, 1, 2}

StoreBatches == UNION {[1..k -> Records] : k \in BatchLens}

\* The store as main leaves it after db.connect and db.init_db.
StoreInit ==
  /\ max_retries = 3
  /\ concurrency = 5
  /\ run = 0
  /\ pc = "idle"
  /\ session = 0
  /\ selenium_driver = 0
  /\ openSessions = {}
  /\ liveDrivers = {}
  /\ pool = TRUE
  /\ processed_urls = {}
  /\ current_page_url = start_url
  /\ page_num = 1
  /\ attempt = 0
  /\ car_urls = <<>>
  /\ next_page_url = None
  /\ tasks = <<>>
  /\ success_count = 0
  /\ error_count = 0
  /\ semaphore = 0
  /\ cars = <<>>
  /\ started = {}
  /\ storeLog = <<>>
  /\ lastBatch = NoBatch
  /\ sleeps = <<>>
  /\ status = NoResponse
  /\ render = NoRender
  /\ runs = <<>>
  /\ ex = NoCall
  /\ text = <<>>
  /\ parsed = NotParsed

crawlVars == <<configVars, run, pc, resourceVars, processed_urls, pageVars, tasks,
               countVars, semaphore, started, fetchVars, unitVars>>

\* A call of db.save_car; dbError: the statement (or acquiring the
\* connection) raises.
StoreSaveCar ==
  /\ Len(storeLog) < MaxCalls
  /\ \E rec \in Records, dbError \in BOOLEAN :
       LET r == save_car(cars, rec, dbError) IN
         /\ cars' = r.rows
         /\ storeLog' = Append(storeLog, [op |-> "save_car", url |-> rec.url,
                                          title |-> rec.title, err |-> dbError,
                                          ret |-> r.ret])
  /\ lastBatch' = NoBatch
  /\ UNCHANGED crawlVars

\* A call of db.save_cars_batch; failAt: the index of the record whose
\* statement raises, 0 when none does.
StoreSaveBatch ==
  /\ Len(storeLog) < MaxCalls
  /\ \E b \in StoreBatches :
       \E failAt \in 0..Len(b) :
         LET r == save_cars_batch(cars, b, failAt) IN
           /\ cars' = r.rows
           /\ lastBatch' = [called |-> TRUE, before |-> cars, cars_data |-> b,
                            failAt |-> failAt, ret |-> r.ret]
  /\ storeLog' = Append(storeLog, [op |-> "save_cars_batch", url |-> None,
                                   title |-> None, err |-> FALSE, ret |-> FALSE])
  /\ UNCHANGED crawlVars

StoreNext ==
  \/ StoreSaveCar
  \/ StoreSaveBatch

StoreSpec == StoreInit /\ [][StoreNext]_vars

\* ----------------------------------------------------------- field parsers
\* A text is a sequence of characters.  The ASCII digits, in order of value.
DigitChars == <<"0", "1", "2", "3", "4", "5", "6", "7", "8", "9">>

\* \d of the regular expressions, on the characters of the texts used here.
IsDigit(c) == \E d \in DOMAIN DigitChars : DigitChars[d] = c

DigitValue(c) == (CHOOSE d \in DOMAIN DigitChars : DigitChars[d] = c) - 1

\* The longest run of digits of s that starts at index i (i may be Len(s) + 1).
RECURSIVE DigitRun(_, _)
DigitRun(s, i) ==
  IF i <= Len(s) /\ IsDigit(s[i]) THEN <<s[i]>> \o DigitRun(s, i + 1) ELSE <<>>

\* The text has a digit; the index of its first digit.
HasMatch(s) == \E i \in DOMAIN s : IsDigit(s[i])

MatchStart(s) == CHOOSE i \in DOMAIN s : IsDigit(s[i]) /\ \A j \in 1..(i - 1) : ~IsDigit(s[j])

\* A pattern that keeps the first group of digits only.
FirstDigitRun(s) == IF HasMatch(s) THEN DigitRun(s, MatchStart(s)) ELSE <<>>

\* re.sub(r'[^\d]', '', text): the digits of the text, in order.
StripNonDigits(s) == SelectSeq(s, IsDigit)

\* int(digits) of a non-empty string of digits.
RECURSIVE ToInt(_)
ToInt(digits) ==
  IF digits = <<>> THEN 0
  ELSE ToInt(SubSeq(digits, 1, Len(digits) - 1)) * 10 + DigitValue(digits[Len(digits)])

\* AutoRiaScraper._extract_price.
_extract_price(price_text) ==
  IF price_text = <<>> THEN 0
  ELSE LET digits == StripNonDigits(price_text)
       IN  IF digits # <<>> THEN ToInt(digits) ELSE 0

\* AutoRiaScraper._extract_phone_number.
_extract_phone_number(phone_text) ==
  IF phone_text = <<>> THEN 0
  ELSE LET digits == StripNonDigits(phone_text)
       IN  IF digits # <<>> THEN ToInt(digits) ELSE 0

\* re.search(r'(\d+[.,]?\d*)', text): the leftmost match, as the digits
\* before the separator and the digits after it (none without a separator).
\* HasMatch: the search finds a match; MatchStart: where the match begins.
NumberMatch(s) ==
  LET whole == DigitRun(s, MatchStart(s))
      sep == MatchStart(s) + Len(whole)
  IN  [whole |-> whole,
       frac |-> IF sep <= Len(s) /\ s[sep] \in {".", ","}
                THEN DigitRun(s, sep + 1) ELSE <<>>]

RECURSIVE Pow10(_)
Pow10(n) == IF n = 0 THEN 1 ELSE 10 * Pow10(n - 1)

\* The integer part of thousand_km * 1000 for the matched number, computed
\* exactly.
ExactKm(m) ==
  ToInt(m.whole) * 1000 + (ToInt(m.frac) * 1000) \div Pow10(Len(m.frac))

\* float(number) * 1000 is computed in binary floating point: when the
\* number has a fraction the product may lie just below the exact value,
\* and int() then gives one less (int(float("1.001") * 1000) is 1000).
\* The errors the truncation may make for a text.
FloatErrors(s) ==
  IF s # <<>> /\ HasMatch(s) /\ NumberMatch(s).frac # <<>> /\ ExactKm(NumberMatch(s)) > 0
  THEN {0, 1} ELSE {0}

\* A parser whose pattern takes the sign in front of the number with it.
_extract_odometerSigned(odometer_text, err) ==
  IF odometer_text = <<>> THEN 0
  ELSE IF ~HasMatch(odometer_text) THEN 0
  ELSE IF MatchStart(odometer_text) > 1 /\ odometer_text[MatchStart(odometer_text) - 1] = "-"
       THEN 0 - (ExactKm(NumberMatch(odometer_text)) - err)
       ELSE ExactKm(NumberMatch(odometer_text)) - err

\* AutoRiaScraper._extract_odometer, err being the error of the float
\* truncation.
_extract_odometer(odometer_text, err) ==
  IF odometer_text = <<>> THEN 0
  ELSE IF ~HasMatch(odometer_text) THEN 0
  ELSE ExactKm(NumberMatch(odometer_text)) - err

\* The characters of the texts handed to the parsers, and the texts.
Alphabet == {"0", "2", "5", " ", "$", ".", "-"}

Texts == SeqsUpTo(Alphabet, MaxText)

\* The crawl and the store at rest while single functions are exercised.
CrawlIdle ==
  /\ concurrency = 5
  /\ run = 0
  /\ pc = "idle"
  /\ session = 0
  /\ selenium_driver = 0
  /\ openSessions = {}
  /\ liveDrivers = {}
  /\ pool = TRUE
  /\ processed_urls = {}
  /\ current_page_url = start_url
  /\ page_num = 1
  /\ attempt = 0
  /\ car_urls = <<>>
  /\ next_page_url = None
  /\ tasks = <<>>
  /\ success_count = 0
  /\ error_count = 0
  /\ semaphore = 0
  /\ cars = <<>>
  /\ started = {}
  /\ storeLog = <<>>
  /\ lastBatch = NoBatch
  /\ sleeps = <<>>
  /\ status = NoResponse
  /\ render = NoRender
  /\ runs = <<>>

restVars == <<concurrency, run, pc, resourceVars, processed_urls, pageVars, tasks,
              countVars, semaphore, cars, started, storeVars, fetchVars, render, runs>>

\* A text of a page element is handed to one of the field parsers.
ParseInit ==
  /\ CrawlIdle
  /\ max_retries = 3
  /\ ex = NoCall
  /\ text \in Texts
  /\ parsed = NotParsed

ParsePrice ==
  /\ parsed.fn = None
  /\ parsed' = [fn |-> "price", value |-> _extract_price(text)]
  /\ UNCHANGED <<restVars, max_retries, ex, text>>

ParsePhone ==
  /\ parsed.fn = None
  /\ parsed' = [fn |-> "phone", value |-> _extract_phone_number(text)]
  /\ UNCHANGED <<restVars, max_retries, ex, text>>

ParseOdometer ==
  /\ parsed.fn = None
  /\ \E err \in FloatErrors(text) :
       parsed' = [fn |-> "odometer", value |-> _extract_odometer(text, err)]
  /\ UNCHANGED <<restVars, max_retries, ex, text>>

ParserNext ==
  \/ ParsePrice
  \/ ParsePhone
  \/ ParseOdometer

ParseSpec == ParseInit /\ [][ParserNext]_vars

\* ------------------------------------------------- one detail extraction
\* The texts the price, odometer and phone elements of a detail page show.
FieldTexts == {<<>>, <<"$">>, <<"2", "5", " ", "0">>, <<"-", "2", ".", "5">>}

\* len(small_images) when the preview gallery is read.
ImageCounts == {0, 2}

\* A detail page as one attempt finds it: load is false when
\* selenium_driver.get or the wait for "auto-content" raises; present holds
\* the fields whose element is found and read without an exception.
\* "phone_number" is in present when the whole reveal block (lines 232-249)
\* runs without an exception: the control is found and clicked and an
\* element of class "phone" appears (reveal = "shown"); phones are then the
\* texts of the elements of class "phone", at least one.  Otherwise the
\* control is absent, the wait times out, or the click raises.
PhoneTexts == {<<>>, <<" ">>, <<"$">>, <<"2", "5", " ", "0">>}

PhoneLists == SeqsUpTo(PhoneTexts, MaxPhones) \ {<<>>}

LoadedPages ==
  [load : {TRUE},
   present : {fs \cup {"phone_number"} : fs \in SUBSET (Fields \ {"phone_number"})},
   price_text : FieldTexts, odometer_text : FieldTexts, images : ImageCounts,
   reveal : {"shown"}, phones : PhoneLists]
  \cup
  [load : {TRUE}, present : SUBSET (Fields \ {"phone_number"}),
   price_text : FieldTexts, odometer_text : FieldTexts, images : ImageCounts,
   reveal : {"absent", "timeout", "shown"}, phones : {<<>>}]

FailedPage ==
  [load |-> FALSE, present |-> {}, price_text |-> <<>>, odometer_text |-> <<>>,
   images |-> 0, reveal |-> "absent", phones |-> <<>>]

\* str.strip() on a text, for the white space of the texts used here.
RECURSIVE LStrip(_)
LStrip(t) == IF t # <<>> /\ Head(t) = " " THEN LStrip(Tail(t)) ELSE t

RECURSIVE RStrip(_)
RStrip(t) ==
  IF t # <<>> /\ t[Len(t)] = " " THEN RStrip(SubSeq(t, 1, Len(t) - 1)) ELSE t

Strip(t) == RStrip(LStrip(t))

\* "elem.text and elem.text.strip()" of the loop at lines 245-247.
KeepsPhone(t) == t # <<>> /\ Strip(t) # <<>>

\* The first element text, kept or not.
FirstPhoneUnfiltered(phones) == IF phones # <<>> THEN Strip(phones[1]) ELSE <<>>

\* phone_numbers[0] if phone_numbers else "" (line 249), phone_numbers
\* being the stripped texts the loop keeps.
FirstPhone(phones) ==
  LET phone_numbers == SelectSeq(phones, KeepsPhone)
  IN  IF phone_numbers # <<>> THEN Strip(phone_numbers[1]) ELSE <<>>

\* The attempt leaves the try block by an exception: the page does not
\* load, or find_element raises NoSuchElementException for the title or the
\* price element, which are read outside any inner try.
AttemptRaises(page) ==
  \/ ~page.load
  \/ "title" \notin page.present
  \/ "price_usd" \notin page.present

\* The dictionary returned at lines 293-304.
car_data(car_url, page, err) ==
  [url |-> car_url,
   title |-> "t1",
   price_usd |-> _extract_price(page.price_text),
   odometer |-> IF "odometer" \in page.present
                THEN _extract_odometer(page.odometer_text, err) ELSE 0,
   username |-> IF "username" \in page.present THEN "seller" ELSE "",
   phone_number |-> IF "phone_number" \in page.present
                    THEN _extract_phone_number(FirstPhone(page.phones)) ELSE 0,
   image_url |-> IF "image_url" \in page.present THEN "img" ELSE "",
   images_count |-> IF "images_count" \in page.present THEN page.images ELSE 0,
   car_number |-> IF "car_number" \in page.present THEN "AA0000" ELSE "",
   car_vin |-> IF "car_vin" \in page.present THEN "vin" ELSE ""]

\* A loop that sleeps after every failed attempt.
SleepsAfterFailureAlways(attempt_) == TRUE

\* "if attempt < self.max_retries - 1" of the except branch.
SleepsAfterFailure(attempt_) == attempt_ < max_retries - 1

ExtractInit ==
  /\ CrawlIdle
  /\ max_retries \in RetryChoices
  /\ ex = NoCall
  /\ text = <<>>
  /\ parsed = NotParsed

\* _extract_car_data(car_url) is called: the loop is entered, or with
\* max_retries = 0 the function ends at once and returns None.
ExtractCall ==
  /\ ex.pc = "idle"
  /\ \E car_url \in ItemUrls :
       ex' = [ex EXCEPT !.url = car_url,
                        !.pc = IF 0 < max_retries THEN "loop" ELSE "failed"]
  /\ UNCHANGED <<restVars, max_retries, text, parsed>>

\* One pass of the loop up to its return or its sleep.
ExtractPass ==
  /\ ex.pc = "loop"
  /\ \E page \in LoadedPages \cup {FailedPage} :
       \E err \in FloatErrors(page.odometer_text) :
         LET seen == [ex EXCEPT !.loads = @ + 1, !.loaded = page.load,
                                !.present = page.present, !.reveal = page.reveal,
                                !.phones = page.phones]
         IN  IF AttemptRaises(page)
             THEN IF SleepsAfterFailure(ex.attempt)
                  THEN ex' = [seen EXCEPT !.pc = "sleep", !.fails = @ + 1,
                                          !.naps = Append(@, ex.attempt + 1)]
                  ELSE ex' = [seen EXCEPT !.pc = "failed", !.fails = @ + 1]
             ELSE ex' = [seen EXCEPT !.pc = "record",
                                     !.ret = car_data(ex.url, page, err)]
  /\ UNCHANGED <<restVars, max_retries, text, parsed>>

\* The backoff sleep ends: the next pass of the loop, or the end of the
\* loop and of the function, which then returns None.
ExtractWake ==
  /\ ex.pc = "sleep"
  /\ ex' = [ex EXCEPT !.attempt = @ + 1, !.loaded = FALSE, !.present = {},
                      !.reveal = "absent", !.phones = <<>>,
                      !.pc = IF ex.attempt + 1 < max_retries THEN "loop" ELSE "failed"]
  /\ UNCHANGED <<restVars, max_retries, text, parsed>>

ExtractNext ==
  \/ ExtractCall
  \/ ExtractPass
  \/ ExtractWake

ExtractSpec == ExtractInit /\ [][ExtractNext]_vars

\* ------------------------------------------- workers on the Chrome driver
\* The coroutines of one batch that are inside "async with semaphore" call
\* _extract_car_data on the one self.selenium_driver.  The event loop runs
\* one coroutine at a time and changes coroutine only where the running one
\* awaits: the driver calls are plain calls, the backoff sleep and db.save_car
\* are awaited.
MaxWorkers == 2

NewWorker(car_url) ==
  [url |-> car_url, pc |-> "enter", attempt |-> 0, src |-> <<>>, ret |-> "none"]

\* A worker between driver.get(car_url) and the end of the attempt's reads.
InAttempt(w) == w.pc \in {"title", "price", "rest"}

\* Every call of the worker gives the event loop away, as it would if the
\* driver were called through awaited executor jobs.
SuspendsAtEveryCall(pos) == TRUE

\* The positions at which a worker is suspended in an await: asyncio.sleep
\* of the except branch, and db.save_car or the return after the call.
SuspendsAt(pos) == pos \in {"backoff", "done"}

renderRest == <<configVars, run, pc, resourceVars, processed_urls, pageVars, tasks,
                countVars, semaphore, cars, started, storeVars, fetchVars, ex, text,
                parsed, runs>>

RenderInit ==
  /\ CrawlIdle
  /\ max_retries \in RetryChoices
  /\ ex = NoCall
  /\ text = <<>>
  /\ parsed = NotParsed

\* asyncio.gather starts the workers of a batch.
RenderBatch ==
  /\ render.w = <<>>
  /\ \E n \in 1..MaxWorkers : \E urls \in [1..n -> ItemUrls] :
       render' = [render EXCEPT !.w = [i \in 1..n |-> NewWorker(urls[i])]]
  /\ UNCHANGED renderRest

\* The worker as its next call leaves it, and the page the driver shows.
\* ok: the call returns rather than raises; kept: a failed driver.get left
\* the page that was loaded before.
AfterCall(w, page, ok, kept) ==
  CASE w.pc = "enter" ->
         IF w.attempt < max_retries
           THEN [w |-> [w EXCEPT !.pc = "get"], page |-> page]
           ELSE [w |-> [w EXCEPT !.pc = "done", !.ret = "None"], page |-> page]
    [] w.pc = "get" ->
         IF ok
           THEN [w |-> [w EXCEPT !.pc = "title", !.src = <<>>], page |-> w.url]
           ELSE [w |-> [w EXCEPT !.pc = "except", !.src = <<>>],
                 page |-> IF kept THEN page ELSE w.url]
    [] w.pc \in {"title", "price"} ->
         IF ok
           THEN [w |-> [w EXCEPT !.pc = IF w.pc = "title" THEN "price" ELSE "rest",
                                 !.src = Append(@, page)],
                 page |-> page]
           ELSE [w |-> [w EXCEPT !.pc = "except"], page |-> page]
    [] w.pc = "rest" ->
         [w |-> [w EXCEPT !.pc = "done", !.src = Append(@, page), !.ret = "record"],
          page |-> page]
    [] w.pc = "except" ->
         IF w.attempt < max_retries - 1
           THEN [w |-> [w EXCEPT !.pc = "backoff"], page |-> page]
           ELSE [w |-> [w EXCEPT !.pc = "enter", !.attempt = @ + 1], page |-> page]
    [] w.pc = "backoff" ->
         [w |-> [w EXCEPT !.pc = "enter", !.attempt = @ + 1], page |-> page]

\* The event loop runs worker i up to its next call: the coroutine that is
\* running goes on, or with none running a suspended one is resumed.
RenderStep(i) ==
  /\ render.running \in {0, i}
  /\ render.w[i].pc # "done"
  /\ \E ok, kept \in BOOLEAN :
       LET after == AfterCall(render.w[i], render.page, ok, kept) IN
         render' = [running |-> IF SuspendsAt(after.w.pc) THEN 0 ELSE i,
                    page |-> after.page,
                    w |-> [render.w EXCEPT ![i] = after.w]]
  /\ UNCHANGED renderRest

RenderNext ==
  \/ RenderBatch
  \/ \E i \in DOMAIN render.w : RenderStep(i)

RenderSpec == RenderInit /\ [][RenderNext]_vars

\* ------------------------------------------- runs on the shared scraper
\* Every scheduled job is asyncio.create_task(run_scraper()) on the one
\* module-level scraper, so a job that fires while an earlier run is still
\* suspended in one of its awaits starts a second run on the same object.
\* A run remembers the ids of the session and the driver its initialize
\* created; self.session and self.selenium_driver are what every run uses.
MaxOverlap == 2

NewRun(id, driver_id, at) ==
  [pc |-> at, session |-> id, driver |-> driver_id, pages |-> 0, lost |-> FALSE]

overlapRest == <<configVars, pc, pool, processed_urls, pageVars, tasks, countVars,
                 semaphore, cars, started, storeVars, fetchVars, ex, text, parsed,
                 render>>

\* The store is connected by main before the scheduler runs.
OverlapInit ==
  /\ CrawlIdle
  /\ max_retries = 3
  /\ ex = NoCall
  /\ text = <<>>
  /\ parsed = NotParsed

\* run_scraper -> __aenter__ -> initialize: the two fields are assigned
\* whatever they held, db.connect returns at once; or webdriver.Chrome
\* raises after the session was assigned and run_scraper ends.
OverlapStart ==
  /\ run < MaxOverlap
  /\ run' = run + 1
  /\ session' = run + 1
  /\ openSessions' = openSessions \cup {run + 1}
  /\ \E ok \in BOOLEAN :
       IF ok
       THEN /\ selenium_driver' = run + 1
            /\ liveDrivers' = liveDrivers \cup {run + 1}
            /\ runs' = Append(runs, NewRun(run + 1, run + 1, "scraping"))
       ELSE /\ UNCHANGED <<selenium_driver, liveDrivers>>
            /\ runs' = Append(runs, NewRun(run + 1, 0, "raised"))
  /\ UNCHANGED overlapRest

\* Run r works through one more listing page with self.session and
\* self.selenium_driver; lost: one of the two had been closed.
OverlapPage(r) ==
  /\ runs[r].pc = "scraping"
  /\ runs[r].pages < MaxPages
  /\ runs' = [runs EXCEPT ![r].pages = @ + 1,
                          ![r].lost = @ \/ session \notin openSessions
                                        \/ selenium_driver \notin liveDrivers]
  /\ UNCHANGED <<run, resourceVars, overlapRest>>

\* process_listing_pages of run r has returned and cleanup runs in the
\* finally of scrape: an open self.session is closed and the coroutine
\* waits in session.close(); with the session closed already the driver
\* is quit, and again by the cleanup of __aexit__.
OverlapScrapeEnd(r) ==
  /\ runs[r].pc = "scraping"
  /\ IF session \in openSessions
     THEN /\ openSessions' = SessionsAfterCleanup
          /\ runs' = [runs EXCEPT ![r].pc = "closing1"]
          /\ UNCHANGED liveDrivers
     ELSE /\ liveDrivers' = DriversAfterCleanup
          /\ runs' = [runs EXCEPT ![r].pc = "finished"]
          /\ UNCHANGED openSessions
  /\ UNCHANGED <<run, session, selenium_driver, overlapRest>>

\* session.close() of run r returns: self.selenium_driver is quit.  After
\* the cleanup of scrape the one of __aexit__ follows at once, and closes
\* self.session if that is open again.
OverlapResume(r) ==
  /\ runs[r].pc \in {"closing1", "closing2"}
  /\ liveDrivers' = DriversAfterCleanup
  /\ IF runs[r].pc = "closing1" /\ session \in openSessions
     THEN /\ openSessions' = SessionsAfterCleanup
          /\ runs' = [runs EXCEPT ![r].pc = "closing2"]
     ELSE /\ runs' = [runs EXCEPT ![r].pc = "finished"]
          /\ UNCHANGED openSessions
  /\ UNCHANGED <<run, session, selenium_driver, overlapRest>>

OverlapNext ==
  \/ OverlapStart
  \/ \E r \in DOMAIN runs : OverlapPage(r)
  \/ \E r \in DOMAIN runs : OverlapScrapeEnd(r)
  \/ \E r \in DOMAIN runs : OverlapResume(r)

OverlapSpec == OverlapInit /\ [][OverlapNext]_vars

\* ------------------------------------------------------------- properties
AllTasksDone == \A i \in DOMAIN tasks : tasks[i].st = "done"

Stored(url) == \E r \in DOMAIN cars : cars[r].url = url

\* In this step task i begins to load the detail page of its URL.
BeginsExtraction(i) ==
  /\ pc = "batch"
  /\ max_retries > 0
  /\ i \in DOMAIN tasks'
  /\ tasks[i].st = "waiting"
  /\ tasks'[i].st # "waiting"
  /\ tasks'[i].outcome # "skipped"

\* C1: within one run, no worker begins the detail extraction of a URL for
\* which a worker of the run has already begun one.
C1_OneExtractionPerUrl ==
  [][\A i \in DOMAIN tasks : BeginsExtraction(i) => tasks[i].url \notin started]_vars

\* C2: the number of workers that hold the page's semaphore (in a backoff
\* sleep or in db.save_car) never exceeds concurrency.
C2_BoundedInFlight == Cardinality(InFlight) <= concurrency

C2_Witness ==
  /\ Cardinality(InFlight) = concurrency
  /\ \E i \in DOMAIN tasks : tasks[i].st = "waiting"
  /\ \E i \in DOMAIN tasks : tasks[i].st = "backoff"

\* C3: when the batch of a page is left, every task of the batch has run to
\* its end whatever its siblings did, every record reported saved is in the
\* store, the raised errors are counted in the batch result, and the loop
\* goes on to the next page when there is one (to done when there is none).
C3_PerItemIsolation ==
  [][(pc = "batch" /\ pc' # "batch") =>
       /\ AllTasksDone
       /\ \A i \in DOMAIN tasks : tasks[i].outcome = "saved" => Stored(tasks[i].url)
       /\ error_count' = Cardinality({i \in DOMAIN tasks : tasks[i].outcome = "raised"})
       /\ pc' = IF next_page_url = None THEN "done" ELSE "fetching"
       /\ next_page_url # None => page_num' = page_num + 1]_vars

C3_Witness ==
  /\ pc = "fetching"
  /\ page_num = 2
  /\ error_count >= 1
  /\ success_count >= 1

\* C4: the loop leaves a batch only when every worker of it has finished, no
\* task exists while a listing page is fetched, the page index grows by one
\* at a time, and the URL fetched for a page after the first is the
\* next-page URL returned for the page before it.
C4_PagesInOrder ==
  [][/\ (pc = "batch" /\ pc' # "batch") => AllTasksDone
     /\ pc' = "fetching" => tasks' = <<>>
     /\ (run' = run /\ pc' # "finished") => page_num' \in {page_num, page_num + 1}
     /\ (pc' = "fetching" /\ page_num' > 1) => current_page_url' = next_page_url']_vars

C4_Witness ==
  /\ pc = "fetching"
  /\ page_num = 2
  /\ current_page_url = "p2"
  /\ started # {}

\* C5: a page without a next link gives next_page_url = None; when the batch
\* of a page with items and no next page is left, the run is done, and from
\* done no listing page is fetched.
C5_StopsWithoutNextLink ==
  /\ \A p \in PageUrls, l \in {NoNextLink, EmptyHref} : ParseNext(p, l) = None
  /\ [][/\ (pc = "batch" /\ next_page_url = None /\ pc' # "batch") =>
             (AllTasksDone /\ pc' = "done" /\ page_num' = page_num)
        /\ pc = "done" => (pc' \in {"done", "finished"} /\ ~FetchOk /\ ~FetchFail)]_vars

C5_Witness ==
  /\ pc = "done"
  /\ car_urls # <<>>
  /\ next_page_url = None
  /\ started # {}

\* C6: when the paginator returns an empty list (an empty page, with or
\* without a next link, or an exhausted retry loop) the run is done at once:
\* no task is created, no extraction begins, the page index stays, and from
\* done no listing page is fetched.
C6_EmptyListEndsRun ==
  [][/\ ((FetchOk \/ FetchGiveUp) /\ car_urls' = <<>>) =>
          /\ pc' = "done"
          /\ tasks' = <<>>
          /\ started' = started
          /\ page_num' = page_num
     /\ FetchGiveUp => (car_urls' = <<>> /\ next_page_url' = None)
     /\ pc = "done" => (pc' = "finished" /\ ~FetchOk /\ ~FetchFail)]_vars

C6_Witness ==
  /\ pc = "done"
  /\ car_urls = <<>>
  /\ next_page_url \in PageUrls

\* C7: the store holds at most one row per url; a save_car call that returned
\* True did not fail, is the only call for its url that returned True, came
\* after no call for that url that went through, and its fields are the
\* row's fields ever after; a call that went through and returned False
\* found its url stored.
C7_UpsertInsertOrIgnore ==
  /\ \A i, j \in DOMAIN cars : cars[i].url = cars[j].url => i = j
  /\ \A k \in DOMAIN storeLog :
       LET c == storeLog[k] IN
         c.op = "save_car" =>
           /\ c.ret =>
                /\ ~c.err
                /\ \E i \in DOMAIN cars : cars[i] = [url |-> c.url, title |-> c.title]
                /\ \A m \in DOMAIN storeLog :
                     (m # k /\ storeLog[m].op = "save_car" /\ storeLog[m].url = c.url)
                       => /\ ~storeLog[m].ret
                          /\ m < k => storeLog[m].err
           /\ (~c.ret /\ ~c.err) => Stored(c.url)

C7_Witness ==
  \E k, m \in DOMAIN storeLog :
    /\ k < m
    /\ storeLog[k].op = "save_car" /\ storeLog[m].op = "save_car"
    /\ storeLog[k].url = storeLog[m].url
    /\ storeLog[k].title # storeLog[m].title
    /\ storeLog[k].ret /\ ~storeLog[m].ret /\ ~storeLog[m].err

BatchUrls(b) == {b[i].url : i \in DOMAIN b}

RowUrls(rows) == {rows[i].url : i \in DOMAIN rows}

\* C8: after a save_cars_batch call in which a record failed, the call
\* returned 0 and the rows are those before the call; after a call in which
\* none failed, the rows before the call are kept, and the returned count is
\* the number of rows added, one per url of the batch not stored before.
C8_BatchAllOrNothing ==
  lastBatch.called =>
    /\ lastBatch.failAt # 0 => (lastBatch.ret = 0 /\ cars = lastBatch.before)
    /\ lastBatch.failAt = 0 =>
         /\ SubSeq(cars, 1, Len(lastBatch.before)) = lastBatch.before
         /\ lastBatch.ret = Len(cars) - Len(lastBatch.before)
         /\ lastBatch.ret =
              Cardinality(BatchUrls(lastBatch.cars_data) \ RowUrls(lastBatch.before))

C8_Witness ==
  /\ lastBatch.called
  /\ lastBatch.failAt = 2
  /\ lastBatch.cars_data[1].url \notin RowUrls(lastBatch.before)
  /\ lastBatch.before # <<>>

\* C9: when run_scraper has returned or raised, no aiohttp session and no
\* Chrome driver created so far is left open.
C9_NoSessionLeftOpen ==
  pc \in {"finished", "raised"} => (openSessions = {} /\ liveDrivers = {})

\* C10: while a run fetches its first listing page, before any of its
\* workers exists, the set of processed URLs is empty.
C10_FilterEmptyAtRunStart ==
  (pc = "fetching" /\ page_num = 1) => processed_urls = {}

\* The 2xx statuses among the answers of the site.
TwoXX == {s \in Statuses : s >= 200 /\ s <= 299}

\* C14: the listing paginator's retry protocol.  A GET that answers any 2xx
\* status is a success: the call returns that page's item URLs and next-page
\* URL at once, without consuming a retry or sleeping.  A failed GET is
\* followed by a sleep of request_delay * k before the k-th following
\* attempt, and sleeps occur only between attempts: a call that gives up
\* after its last attempt has slept once less than it has attempted.
C14_PaginatorRetryProtocol ==
  /\ [](\A k \in DOMAIN sleeps : sleeps[k] = k)
  /\ [][((FetchOk \/ FetchFail) /\ status' \in TwoXX)
          => (attempt' \in {attempt, 0} /\ sleeps' \in {sleeps, <<>>})]_vars
  /\ [][(FetchGiveUp /\ attempt > 0) => Len(sleeps) = attempt - 1]_vars

\* The number of tasks of the page whose unit of work ended in one of outcomes.
Outcomes(outcomes) == Cardinality({i \in DOMAIN tasks : tasks[i].outcome \in outcomes})

\* C15: the statistics of a page are a partition of its batch.  When the
\* batch of a page is counted, every attempted item is under exactly one of
\* saved, skipped-duplicate and failed: the success count is the number of
\* items saved, the failure count includes every item whose extraction
\* failed after all retries and every item whose unit of work raised, and
\* what remains of the attempted items is the number skipped as duplicates
\* (an item not saved because of a persistence error may be counted as
\* either skipped or failed).
C15_BatchStatisticsPartition ==
  [][(pc = "batch" /\ pc' \in {"fetching", "done"})
      => /\ success_count' = Outcomes({"saved"})
         /\ error_count' >= Outcomes({"failed", "raised"})
         /\ error_count' <= Outcomes({"failed", "raised", "notsaved"})
         /\ Len(tasks) - success_count' - error_count' >= Outcomes({"skipped"})
         /\ Len(tasks) - success_count' - error_count'
              <= Outcomes({"skipped", "notsaved"})]_vars

\* C16: a persistence error while storing one item is absorbed.  save_car
\* answers False for it and leaves the rows as they were; in the crawl, the
\* step in which a worker's save of an item that has no row yet comes
\* back not saved changes no row, ends no other task and leaves the batch
\* running, and every item a worker reports as saved has its row.
C16_PersistenceErrorAbsorbed ==
  /\ [](\A u \in ItemUrls, ti \in PageTitles :
          save_car(cars, [url |-> u, title |-> ti], TRUE) = [rows |-> cars, ret |-> FALSE])
  /\ [](\A i \in DOMAIN tasks : tasks[i].outcome = "saved" => Stored(tasks[i].url))
  /\ [][\A i \in DOMAIN tasks :
          (/\ tasks[i].st = "saving"
           /\ i \in DOMAIN tasks'
           /\ tasks'[i].outcome = "notsaved"
           /\ ~Stored(tasks[i].url))
          => (/\ cars' = cars
              /\ pc' = "batch"
              /\ \A j \in DOMAIN tasks \ {i} : tasks'[j] = tasks[j])]_vars

\* A persistence error kept the first item of a page out of the table and
\* a later item of the same page was saved.
C16_Witness ==
  /\ pc = "batch"
  /\ \E i, j \in DOMAIN tasks :
        /\ i < j
        /\ tasks[i].outcome = "notsaved"
        /\ ~Stored(tasks[i].url)
        /\ tasks[j].outcome = "saved"

\* initialize of the current run did not complete: the session, the driver
\* or the pool of this run is missing.
StartupFailed == run > 0 /\ (session # run \/ selenium_driver # run \/ ~pool)

\* C17: a fatal startup error aborts the run before any page is processed.
\* A run whose initialize failed (session, driver or storage connection)
\* has raised: no listing page has been fetched in it, no detail extraction
\* started, no task created; the failing start leaves the table and the
\* processed URLs as they were, and the next step after it can only be the
\* start of another run.
C17_StartupErrorAbortsRun ==
  /\ [](StartupFailed =>
          (/\ pc = "raised"
           /\ started = {}
           /\ tasks = <<>>
           /\ attempt = 0 /\ sleeps = <<>> /\ status = NoResponse
           /\ car_urls = <<>> /\ page_num = 1))
  /\ [][StartupFailed' => (run' = run + 1 \/ UNCHANGED <<run, cars, processed_urls>>)]_vars
  /\ [][(StartupFailed' /\ run' = run + 1)
          => (cars' = cars /\ processed_urls' = processed_urls)]_vars
  /\ [][StartupFailed => (run' = run + 1 /\ ~FetchOk /\ ~FetchFail /\ ~FetchGiveUp)]_vars

\* The second run failed to start after the first one had stored records.
C17_Witness ==
  /\ StartupFailed
  /\ pc = "raised"
  /\ run = 2
  /\ cars # <<>>
  /\ processed_urls # {}

\* The positions of a run between a successful initialize and its cleanup.
Crawling == pc \in {"fetching", "batch", "done"}

\* C18: once initialize has succeeded the run never raises because of what
\* it meets while crawling.  A run raises only when its initialize failed;
\* from every position of the crawl (whatever fetches, extractions, saves
\* or units of work fail) the run stays in the crawl or finishes, and it
\* does finish; when it has finished, its session is closed and its driver
\* quit.
C18_CrawlProblemsNeverRaise ==
  /\ [][pc' = "raised" => (StartupFailed' /\ ~Crawling)]_vars
  /\ [][Crawling => (run' = run /\ (Crawling' \/ pc' = "finished"))]_vars
  /\ []((Crawling \/ pc = "finished") => ~StartupFailed)
  /\ [](pc = "finished" => (session \notin openSessions /\ selenium_driver \notin liveDrivers))
  /\ Crawling ~> (pc = "finished")

\* A run in which extractions were started and nothing was stored has
\* finished with its session closed and its driver quit.
C18_Witness ==
  /\ pc = "finished"
  /\ run = 1
  /\ started # {}
  /\ cars = <<>>
  /\ session \notin openSessions
  /\ selenium_driver \notin liveDrivers

\* The indices of the digit characters of a text.
DigitPositions(s) == {i \in DOMAIN s : IsDigit(s[i])}

\* C20: price parsing.  The price of a text is the integer whose decimal
\* digits are the digit characters of the text in their order: the digit
\* at each digit position of the text is the decimal digit of the price at
\* the place given by the number of digit positions after it, and the price
\* has no higher digit; the price is 0 when the text is empty or has no
\* digit.  "250 000 $" gives 250000.
C20_PriceIsDigitsOfText ==
  /\ _extract_price(<<"2", "5", "0", " ", "0", "0", "0", " ", "$">>) = 250000
  /\ _extract_price(<<>>) = 0
  /\ parsed.fn = "price" =>
       LET P == DigitPositions(text) IN
         /\ parsed.value >= 0
         /\ parsed.value < Pow10(Cardinality(P))
         /\ \A i \in P :
              (parsed.value \div Pow10(Cardinality({j \in P : j > i}))) % 10
                = DigitValue(text[i])
         /\ P = {} => parsed.value = 0

\* The price of a text whose digits are separated by another character.
C20_Witness ==
  /\ parsed.fn = "price"
  /\ text = <<"2", " ", "5">>
  /\ parsed.value = 25

\* C12: field-level fault tolerance.  In a pass whose page loads, the
\* extraction returns a record in that pass, without a failed attempt, and
\* every field whose element is missing or unreadable has its default.
C12_FieldFaultTolerance ==
  [][(ex.pc = "loop" /\ ex'.loads = ex.loads + 1 /\ ex'.loaded)
      => (/\ ex'.pc = "record"
          /\ ex'.fails = ex.fails
          /\ \A f \in Fields \ ex'.present : ex'.ret[f] = Defaults[f])]_vars

C19_RecordUrlAndNonNegative ==
  ex.pc = "record" =>
    /\ ex.ret.url = ex.url
    /\ ex.ret.price_usd \in Nat
    /\ ex.ret.odometer \in Nat
    /\ ex.ret.phone_number \in Nat
    /\ ex.ret.images_count \in Nat

\* A record read from a page whose odometer text has a minus sign before
\* the number and whose price text has digits and other characters.
C19_Witness ==
  /\ ex.pc = "record"
  /\ ex.ret.url = "b"
  /\ ex.ret.odometer \in {2499, 2500}
  /\ ex.ret.price_usd = 250
  /\ ex.ret.images_count = 2

\* The stop signal has been handled in the current run.
Signalled == pc \in {"cancelling", "stopped"}

IsDigitsInteger(v, t) ==
  LET P == DigitPositions(t) IN
    /\ v >= 0
    /\ v < Pow10(Cardinality(P))
    /\ \A i \in P :
         (v \div Pow10(Cardinality({j \in P : j > i}))) % 10 = DigitValue(t[i])

\* The text has a character other than white space.
NonBlank(t) == \E i \in DOMAIN t : t[i] # " "

\* C21: phone extraction.  When the reveal control was clicked and the
\* revealed element appeared, the phone number of the returned record is
\* the digits-only integer of the first revealed string that is non-empty
\* (has a character other than white space); it is 0 when the control is
\* absent, the element never appears, or no revealed string has a digit;
\* and whatever happens to the phone, a page that loads with its title and
\* price returns its record.  The digits of "+38 (067) 123-45-67" are those
\* of 380671234567.
C21_PhoneExtraction ==
  /\ StripNonDigits(<<"+", "3", "8", " ", "(", "0", "6", "7", ")", " ", "1", "2", "3",
                      "-", "4", "5", "-", "6", "7">>)
       = <<"3", "8", "0", "6", "7", "1", "2", "3", "4", "5", "6", "7">>
  /\ [](ex.pc = "record" =>
          /\ "phone_number" \in ex.present =>
               /\ ex.reveal = "shown"
               /\ \A k \in DOMAIN ex.phones :
                    (NonBlank(ex.phones[k]) /\ \A j \in 1..(k - 1) : ~NonBlank(ex.phones[j]))
                    => IsDigitsInteger(ex.ret.phone_number, ex.phones[k])
               /\ (\A k \in DOMAIN ex.phones : ~NonBlank(ex.phones[k]))
                    => ex.ret.phone_number = 0
          /\ "phone_number" \notin ex.present => ex.ret.phone_number = 0
          /\ (\A k \in DOMAIN ex.phones : DigitPositions(ex.phones[k]) = {})
               => ex.ret.phone_number = 0)
  /\ [][(/\ ex.pc = "loop"
          /\ ex'.loads = ex.loads + 1
          /\ ex'.loaded
          /\ {"title", "price_usd"} \subseteq ex'.present)
         => ex'.pc = "record"]_vars

\* The first revealed string is blank and the second has digits.
C21_Witness ==
  /\ ex.pc = "record"
  /\ ex.reveal = "shown"
  /\ ex.phones = << <<" ">>, <<"2", "5", " ", "0">> >>
  /\ ex.ret.phone_number = 250

\* C22: the Chrome driver is never used by two workers at once.  While a
\* worker is between its driver.get and the end of that attempt's reads, it
\* is the running coroutine, the driver shows its URL and no other worker is
\* between a navigation and its reads; every field of a returned record was
\* read from the page of the record's own URL.
C22_DriverOneWorkerAtATime ==
  \A i \in DOMAIN render.w :
    LET w == render.w[i] IN
      /\ InAttempt(w) =>
           /\ render.running = i
           /\ render.page = w.url
           /\ \A j \in DOMAIN render.w \ {i} : ~InAttempt(render.w[j])
      /\ w.ret = "record" =>
           /\ Len(w.src) = 3
           /\ \A k \in DOMAIN w.src : w.src[k] = w.url

\* Two workers of different URLs returned records, the first one after a
\* backoff sleep during or after which the second one used the driver.
C22_Witness ==
  /\ Len(render.w) = 2
  /\ render.w[1].url = "a" /\ render.w[2].url = "b"
  /\ render.w[1].ret = "record" /\ render.w[2].ret = "record"
  /\ render.w[1].attempt = 1
  /\ render.page = "a"

\* C23: a crawl run terminates and fetches each listing-page URL for at most
\* one page index.  Under fair scheduling a run that fetches listing pages
\* reaches the end of the page loop; a GET made for a page index above 1 is
\* never for the URL of index 1, and the page loop never moves from one
\* index to the next with the URL unchanged, also when the next-page link of
\* a page leads to a listing page that was already visited.
C23_TerminatesOneFetchPerPage ==
  /\ (pc = "fetching") ~> (pc = "done")
  /\ [][(pc = "fetching" /\ attempt < max_retries /\ page_num > 1)
         => current_page_url # start_url]_vars
  /\ [][page_num' = page_num + 1 => current_page_url' # current_page_url]_vars

\* The record of the task's URL has been handed to db.save_car.
Submitted(t) == t.st = "saving" \/ t.outcome \in {"saved", "notsaved", "raised"}

\* C24: a URL is in processed_urls exactly when one of its extractions
\* succeeded and its record was handed to the store.  A URL enters the set
\* only in the step in which a worker's extraction of it succeeds and
\* db.save_car is called, it is in the set while and after the store call
\* runs whatever the call gives, and it never leaves the set; an extraction
\* that fails leaves the set as it was, and an unmarked URL of a later page
\* gets a worker that attempts it; a worker that enters when its URL is
\* marked submits nothing, also when the store call of the URL failed.
C24_ProcessedIffExtractedAndSubmitted ==
  /\ []({tasks[i].url : i \in {j \in DOMAIN tasks : Submitted(tasks[j])}}
          \subseteq processed_urls)
  /\ [][\A u \in processed_urls' \ processed_urls :
          \E i \in DOMAIN tasks \cap DOMAIN tasks' :
            /\ tasks'[i].url = u
            /\ ~Submitted(tasks[i])
            /\ tasks'[i].st = "saving"]_vars
  /\ [][processed_urls \subseteq processed_urls']_vars
  /\ [][\A i \in DOMAIN tasks \cap DOMAIN tasks' :
          (tasks[i].outcome # "failed" /\ tasks'[i].outcome = "failed")
          => processed_urls' = processed_urls]_vars
  /\ [][(pc = "fetching" /\ pc' = "batch")
         => \A k \in DOMAIN car_urls' :
              car_urls'[k] \in ItemUrls \ processed_urls
              => \E i \in DOMAIN tasks' : tasks'[i].url = car_urls'[k]]_vars
  /\ [][\A i \in DOMAIN tasks \cap DOMAIN tasks' :
          (tasks[i].st = "waiting" /\ tasks'[i].st # "waiting")
          => IF tasks[i].url \in processed_urls
             THEN tasks'[i].outcome = "skipped" /\ cars' = cars
             ELSE /\ tasks'[i].outcome # "skipped"
                  /\ max_retries > 0 => tasks[i].url \in started']_vars

\* A worker found its URL marked and skipped it although the store call of
\* the URL had failed and no row of it exists.
C24_Witness ==
  \E i \in DOMAIN tasks :
    /\ tasks[i].outcome = "skipped"
    /\ tasks[i].url \in processed_urls
    /\ ~Stored(tasks[i].url)

\* C25: runs on the shared scraper do not interfere.  While a run is
\* crawling, the session and the driver it acquired are open and it never
\* worked with a closed one; once a run has finished, the session and the
\* driver it acquired are released.
C25_RunsDoNotInterfere ==
  \A r \in DOMAIN runs :
    /\ runs[r].pc = "scraping" =>
         /\ runs[r].session \in openSessions
         /\ runs[r].driver \in liveDrivers
    /\ ~runs[r].lost
    /\ runs[r].pc = "finished" =>
         /\ runs[r].session \notin openSessions
         /\ runs[r].driver \notin liveDrivers

====
